---- MODULE Spec2Model ----
(***************************************************************************)
(* Integral image (summed-area table) builders of src/src/integral.cpp:    *)
(* computeIntegralSingle, computeIntegralMulti (two fork-join phases of    *)
(* std::thread workers), computeIntegralNaive, and the rectangle query of  *)
(* src/tests/test_integral.cpp.                                            *)
(*                                                                         *)
(* Machine integers are kept at their width.  A u32 is a pair and a u64 a  *)
(* 4-tuple of 16-bit limbs, least significant limb first, so that the      *)
(* wrap-around of unsigned arithmetic is what the operators compute.       *)
(* A vector is a sequence; the code's index i is the sequence's i + 1.     *)
(***************************************************************************)
EXTENDS Integers, Sequences, FiniteSets

\* ------------------------------------------------------------ bounds
MaxDim == 3
MaxThreads == 4

\* ------------------------------------------------------------ u32 / u64
Limb == 65536

Zero64 == <<0, 0, 0, 0>>

\* integral promotion of a u32 sample to u64 (zero extension)
ToU64(v) == <<v[1], v[2], 0, 0>>

\* a 32-bit accumulator: the sum reduced modulo 2^32
AddU32Acc(a, b) ==
  LET c1 == a[1] + b[1]
      c2 == a[2] + b[2] + (c1 \div Limb)
  IN  <<c1 % Limb, c2 % Limb, 0, 0>>

\* u64 + u64, modulo 2^64
AddU64(a, b) ==
  LET c1 == a[1] + b[1]
      c2 == a[2] + b[2] + (c1 \div Limb)
      c3 == a[3] + b[3] + (c2 \div Limb)
      c4 == a[4] + b[4] + (c3 \div Limb)
  IN  <<c1 % Limb, c2 % Limb, c3 % Limb, c4 % Limb>>

\* u64 - u64, modulo 2^64
SubU64(a, b) ==
  LET d1 == Limb + a[1] - b[1]
      d2 == Limb + a[2] - b[2] - (1 - (d1 \div Limb))
      d3 == Limb + a[3] - b[3] - (1 - (d2 \div Limb))
      d4 == Limb + a[4] - b[4] - (1 - (d3 \div Limb))
  IN  <<d1 % Limb, d2 % Limb, d3 % Limb, d4 % Limb>>

Min(a, b) == IF a < b THEN a ELSE b

\* ------------------------------------------------------------ vectors
\* integral.clear() that leaves the buffer as it was
clear_noop(buf) == buf

\* integral.clear()
clear(buf) == <<>>

\* integral.assign(n, 0), and vector<u64> rowCum(n)
assign(n) == [i \in 1..n |-> Zero64]

\* the guard if(w==0 || h==0) with the wrong connective
degenerate_and(wd, ht) == wd = 0 /\ ht = 0

\* the guard if(w==0 || h==0) of all three builders
degenerate(wd, ht) == wd = 0 \/ ht = 0

\* ------------------------------------------------------------ computeIntegralSingle
\* one iteration of the inner loop without the value above
SingleCellNoAbove(im, wd, I, y, x, row_sum) ==
  [I EXCEPT ![y * wd + x + 1] = AddU64(row_sum, ToU64(im[y * wd + x + 1]))]

\* one iteration of the inner loop: the table after cell (x, y), given row_sum
\* before the iteration
SingleCell(im, wd, I, y, x, row_sum) ==
  LET rs    == AddU64(row_sum, ToU64(im[y * wd + x + 1]))
      above == IF y > 0 THEN I[(y - 1) * wd + x + 1] ELSE Zero64
  IN  [I EXCEPT ![y * wd + x + 1] = AddU64(rs, above)]

RECURSIVE SingleLoop(_, _, _, _, _, _, _)
SingleLoop(im, wd, ht, I, y, x, row_sum) ==
  IF y >= ht THEN I
  ELSE IF x >= wd THEN SingleLoop(im, wd, ht, I, y + 1, 0, Zero64)
  ELSE SingleLoop(im, wd, ht, SingleCell(im, wd, I, y, x, row_sum), y, x + 1,
                  AddU64(row_sum, ToU64(im[y * wd + x + 1])))

computeIntegralSingle(im, wd, ht, buf) ==
  IF degenerate(wd, ht) THEN clear(buf)
  ELSE SingleLoop(im, wd, ht, assign(wd * ht), 0, 0, Zero64)

\* ------------------------------------------------------------ computeIntegralNaive
\* for(i<=x) for(j<=y) s += img[j*w + i]
RECURSIVE NaiveSum(_, _, _, _, _, _, _)
NaiveSum(im, wd, x, y, i, j, s) ==
  IF i > x THEN s
  ELSE IF j > y THEN NaiveSum(im, wd, x, y, i + 1, 0, s)
  ELSE NaiveSum(im, wd, x, y, i, j + 1, AddU64(s, ToU64(im[j * wd + i + 1])))

computeIntegralNaive(im, wd, ht, buf) ==
  IF degenerate(wd, ht) THEN clear(buf)
  ELSE [c \in 1..(wd * ht) |->
          NaiveSum(im, wd, (c - 1) % wd, (c - 1) \div wd, 0, 0, Zero64)]

\* ------------------------------------------------------------ computeIntegralMulti
\* num_threads taken as given, without the clamp
clamp_none(n) == n

\* if(num_threads < 1) num_threads = 1
clamp(n) == IF n < 1 THEN 1 ELSE n

\* block size rounded down instead of up
rows_per_floor(ht, n) == ht \div n

\* size_t rows_per = (h + num_threads - 1) / num_threads
rows_per(ht, n) == (ht + n - 1) \div n

row_y0(tid, ht, n) == tid * rows_per(ht, n)

\* a block that runs one row into the next worker's block
row_y1_over(tid, ht, n) == Min(ht, row_y0(tid, ht, n) + rows_per(ht, n) + 1)

\* size_t y1 = std::min(h, y0 + rows_per)
row_y1(tid, ht, n) == Min(ht, row_y0(tid, ht, n) + rows_per(ht, n))

\* block size rounded down instead of up
cols_per_floor(wd, n) == wd \div n

\* size_t cols_per = (w + num_threads - 1) / num_threads
cols_per(wd, n) == (wd + n - 1) \div n

col_x0(tid, wd, n) == tid * cols_per(wd, n)

\* size_t x1 = std::min(w, x0 + cols_per)
col_x1(tid, wd, n) == Min(wd, col_x0(tid, wd, n) + cols_per(wd, n))

\* a join that returns without waiting for the thread
joinable_always(th) == TRUE

\* th.join() returns once the thread has terminated
joinable(th) == th.st = "done"

\* the whole of worker_rows(tid), run alone on table rc
RECURSIVE worker_rows_run(_, _, _, _, _, _, _, _, _)
worker_rows_run(im, wd, ht, n, tid, rc, y, x, s) ==
  IF y >= row_y1(tid, ht, n) THEN rc
  ELSE IF x >= wd THEN worker_rows_run(im, wd, ht, n, tid, rc, y + 1, 0, Zero64)
  ELSE LET s1 == AddU64(s, ToU64(im[y * wd + x + 1]))
       IN  worker_rows_run(im, wd, ht, n, tid, [rc EXCEPT ![y * wd + x + 1] = s1],
                           y, x + 1, s1)

\* the whole of worker_cols(tid), run alone: reads rc, writes I
RECURSIVE worker_cols_run(_, _, _, _, _, _, _, _, _)
worker_cols_run(rc, wd, ht, n, tid, I, x, y, s) ==
  IF x >= col_x1(tid, wd, n) THEN I
  ELSE IF y >= ht THEN worker_cols_run(rc, wd, ht, n, tid, I, x + 1, 0, Zero64)
  ELSE LET s1 == AddU64(s, rc[y * wd + x + 1])
       IN  worker_cols_run(rc, wd, ht, n, tid, [I EXCEPT ![y * wd + x + 1] = s1],
                           x, y + 1, s1)

\* computeIntegralMulti with num_threads = 1: worker_rows(0), then worker_cols(0)
MultiOneWorker(im, wd, ht) ==
  LET rc == worker_rows_run(im, wd, ht, 1, 0, assign(wd * ht), row_y0(0, ht, 1), 0, Zero64)
  IN  worker_cols_run(rc, wd, ht, 1, 0, assign(wd * ht), col_x0(0, wd, 1), 0, Zero64)

\* ------------------------------------------------------------ rectangle query (tests)
\* the inclusion-exclusion sum without the corner term D
rect_sum_noD(I, wd, x0, y0, x1, y1) ==
  LET A == I[y1 * wd + x1 + 1]
      B == IF y0 > 0 THEN I[(y0 - 1) * wd + x1 + 1] ELSE Zero64
      C == IF x0 > 0 THEN I[y1 * wd + (x0 - 1) + 1] ELSE Zero64
  IN  SubU64(SubU64(A, B), C)

\* u64 sum = A - B - C + D
rect_sum(I, wd, x0, y0, x1, y1) ==
  LET A == I[y1 * wd + x1 + 1]
      B == IF y0 > 0 THEN I[(y0 - 1) * wd + x1 + 1] ELSE Zero64
      C == IF x0 > 0 THEN I[y1 * wd + (x0 - 1) + 1] ELSE Zero64
      D == IF x0 > 0 /\ y0 > 0 THEN I[(y0 - 1) * wd + (x0 - 1) + 1] ELSE Zero64
  IN  AddU64(SubU64(SubU64(A, B), C), D)

\* for(y=y0..y1) for(x=x0..x1) sref += img[y*w + x]
RECURSIVE rect_ref(_, _, _, _, _, _, _, _)
rect_ref(im, wd, x0, x1, y1, y, x, sref) ==
  IF y > y1 THEN sref
  ELSE IF x > x1 THEN rect_ref(im, wd, x0, x1, y1, y + 1, x0, sref)
  ELSE rect_ref(im, wd, x0, x1, y1, y, x + 1, AddU64(sref, ToU64(im[y * wd + x + 1])))

\* ------------------------------------------------------------ inputs
One32 == <<1, 0>>
Max32 == <<65535, 65535>>
Samples == {One32, Max32}

\* the grids a caller passes: uniform, one cell that differs, and the ramp 1, 2, 3, ...
GridsOf(wd, ht) ==
  LET n == wd * ht
  IN  {[i \in 1..n |-> IF i = c THEN a ELSE b] : c \in 1..n, a \in Samples, b \in Samples}
        \cup {[i \in 1..n |-> <<i, 0>>]}

ThreadArgs == -1 .. MaxThreads

\* ------------------------------------------------------------ state
VARIABLES
  img, w, h,      \* the caller's grid and its dimensions
  integral,       \* the caller's output buffer, reused from call to call
  pc,             \* the calling thread: "idle", "phase1", "phase2", "queried"
  last,           \* the builder that returned last on this grid, or "none"
  arg,            \* the num_threads argument of the current or last Multi call
  num_threads,    \* the parameter after the clamp
  rowCum,         \* the intermediate table of computeIntegralMulti
  rowsW, colsW,   \* the worker threads of phase 1 and 2, by tid + 1
  acc,            \* per buffer and cell, the workers of the running fork-join
                  \* region that have read and written it
  started,        \* std::thread objects constructed by the current or last call
  reused,         \* the buffer held a table of another size when the last
                  \* computeIntegralSingle or computeIntegralNaive call began
  q, rsum, rref   \* the last rectangle query: its corners, sum and sref

vars == <<img, w, h, integral, pc, last, arg, num_threads, rowCum, rowsW, colsW,
          acc, started, reused, q, rsum, rref>>

NoAcc(n) == [b \in {"rowCum", "integral"} |-> [c \in 1..n |-> [r |-> {}, w |-> {}]]]

Init ==
  /\ w \in 0..MaxDim
  /\ h \in 0..MaxDim
  /\ img \in GridsOf(w, h)
  /\ integral = <<>>
  /\ pc = "idle"
  /\ last = "none"
  /\ arg = 0
  /\ num_threads = 0
  /\ rowCum = <<>>
  /\ rowsW = <<>>
  /\ colsW = <<>>
  /\ acc = NoAcc(0)
  /\ started = 0
  /\ reused = FALSE
  /\ q = <<>>
  /\ rsum = Zero64
  /\ rref = Zero64

\* the caller, a builder having returned, prepares another grid; the output
\* buffer keeps what the last call left
NewGrid ==
  /\ pc = "idle"
  /\ last # "none"
  /\ \E wd \in 0..MaxDim, ht \in 0..MaxDim :
       /\ w' = wd
       /\ h' = ht
       /\ img' \in GridsOf(wd, ht)
  /\ last' = "none"
  /\ arg' = 0
  /\ started' = 0
  /\ reused' = FALSE
  /\ UNCHANGED <<integral, pc, num_threads, rowCum, rowsW, colsW, acc, q, rsum, rref>>

CallSingle ==
  /\ pc = "idle"
  /\ integral' = computeIntegralSingle(img, w, h, integral)
  /\ last' = "single"
  /\ arg' = 0
  /\ started' = 0
  /\ reused' = (Len(integral) # 0 /\ Len(integral) # w * h)
  /\ UNCHANGED <<img, w, h, pc, num_threads, rowCum, rowsW, colsW, acc, q, rsum, rref>>

CallNaive ==
  /\ pc = "idle"
  /\ integral' = computeIntegralNaive(img, w, h, integral)
  /\ last' = "naive"
  /\ arg' = 0
  /\ started' = 0
  /\ reused' = (Len(integral) # 0 /\ Len(integral) # w * h)
  /\ UNCHANGED <<img, w, h, pc, num_threads, rowCum, rowsW, colsW, acc, q, rsum, rref>>

\* computeIntegralMulti up to the first spawn: the guard, the clamp, the two tables
CallMulti ==
  /\ pc = "idle"
  /\ \E n \in ThreadArgs :
       /\ arg' = n
       /\ IF degenerate(w, h)
          THEN /\ integral' = clear(integral)
               /\ last' = "multi"
               /\ UNCHANGED <<pc, num_threads, rowCum, acc>>
          ELSE /\ num_threads' = clamp(n)
               /\ integral' = assign(w * h)
               /\ rowCum' = assign(w * h)
               /\ acc' = NoAcc(w * h)
               /\ pc' = "phase1"
               /\ last' = "none"
  /\ started' = 0
  /\ reused' = FALSE
  /\ rowsW' = <<>>
  /\ colsW' = <<>>
  /\ UNCHANGED <<img, w, h, q, rsum, rref>>

\* threads.emplace_back(worker_rows, t)
Spawn1 ==
  /\ pc = "phase1"
  /\ Len(rowsW) < num_threads
  /\ LET y0 == row_y0(Len(rowsW), h, num_threads)
     IN  rowsW' = Append(rowsW, [st |-> "run", y |-> y0, x |-> 0, s |-> Zero64])
  /\ started' = started + 1
  /\ UNCHANGED <<img, w, h, integral, pc, last, arg, num_threads, rowCum, colsW, acc,
                 reused, q, rsum, rref>>

\* one iteration of worker_rows's inner loop; the iteration that leaves both
\* loops, or the test y < y1 failing at once, ends the thread
StepRows(tid) ==
  /\ pc \in {"phase1", "phase2"}
  /\ tid < Len(rowsW)
  /\ rowsW[tid + 1].st = "run"
  /\ LET me == rowsW[tid + 1]
         y1 == row_y1(tid, h, num_threads)
         c  == me.y * w + me.x + 1
         s  == AddU64(me.s, ToU64(img[c]))
     IN  IF me.y < y1
         THEN /\ rowCum' = [rowCum EXCEPT ![c] = s]
              /\ acc' = [acc EXCEPT !["rowCum"][c].w = @ \cup {<<1, tid>>}]
              /\ rowsW' = [rowsW EXCEPT ![tid + 1] =
                             IF me.x + 1 < w
                             THEN [me EXCEPT !.x = me.x + 1, !.s = s]
                             ELSE [me EXCEPT !.y = me.y + 1, !.x = 0, !.s = Zero64,
                                             !.st = IF me.y + 1 < y1 THEN "run" ELSE "done"]]
         ELSE /\ rowsW' = [rowsW EXCEPT ![tid + 1].st = "done"]
              /\ UNCHANGED <<rowCum, acc>>
  /\ UNCHANGED <<img, w, h, integral, pc, last, arg, num_threads, colsW, started,
                 reused, q, rsum, rref>>

\* for(auto &th: threads) th.join(); threads.clear(): the caller goes on when
\* every thread of phase 1 has let its join return
Join1 ==
  /\ pc = "phase1"
  /\ Len(rowsW) >= num_threads
  /\ \A i \in 1..Len(rowsW) : joinable(rowsW[i])
  /\ pc' = "phase2"
  /\ acc' = NoAcc(w * h)
  /\ UNCHANGED <<img, w, h, integral, last, arg, num_threads, rowCum, rowsW, colsW,
                 started, reused, q, rsum, rref>>

\* threads.emplace_back(worker_cols, t)
Spawn2 ==
  /\ pc = "phase2"
  /\ Len(colsW) < num_threads
  /\ LET x0 == col_x0(Len(colsW), w, num_threads)
     IN  colsW' = Append(colsW, [st |-> "run", x |-> x0, y |-> 0, s |-> Zero64])
  /\ started' = started + 1
  /\ UNCHANGED <<img, w, h, integral, pc, last, arg, num_threads, rowCum, rowsW, acc,
                 reused, q, rsum, rref>>

\* one iteration of worker_cols's inner loop; the iteration that leaves both
\* loops, or the test x < x1 failing at once, ends the thread
StepCols(tid) ==
  /\ pc = "phase2"
  /\ tid < Len(colsW)
  /\ colsW[tid + 1].st = "run"
  /\ LET me == colsW[tid + 1]
         x1 == col_x1(tid, w, num_threads)
         c  == me.y * w + me.x + 1
         s  == AddU64(me.s, rowCum[c])
     IN  IF me.x < x1
         THEN /\ integral' = [integral EXCEPT ![c] = s]
              /\ acc' = [acc EXCEPT !["rowCum"][c].r = @ \cup {<<2, tid>>},
                                    !["integral"][c].w = @ \cup {<<2, tid>>}]
              /\ colsW' = [colsW EXCEPT ![tid + 1] =
                             IF me.y + 1 < h
                             THEN [me EXCEPT !.y = me.y + 1, !.s = s]
                             ELSE [me EXCEPT !.x = me.x + 1, !.y = 0, !.s = Zero64,
                                             !.st = IF me.x + 1 < x1 THEN "run" ELSE "done"]]
         ELSE /\ colsW' = [colsW EXCEPT ![tid + 1].st = "done"]
              /\ UNCHANGED <<integral, acc>>
  /\ UNCHANGED <<img, w, h, pc, last, arg, num_threads, rowCum, rowsW, started,
                 reused, q, rsum, rref>>

\* for(auto &th: threads) th.join() of phase 2, and the return: the locals of
\* computeIntegralMulti are destroyed
Join2 ==
  /\ pc = "phase2"
  /\ Len(colsW) >= num_threads
  /\ \A i \in 1..Len(colsW) : joinable(colsW[i])
  /\ pc' = "idle"
  /\ last' = "multi"
  /\ num_threads' = 0
  /\ rowCum' = <<>>
  /\ rowsW' = <<>>
  /\ colsW' = <<>>
  /\ acc' = NoAcc(0)
  /\ UNCHANGED <<img, w, h, integral, arg, started, reused, q, rsum, rref>>

\* the test's rect(x0, y0, x1, y1) on the table of computeIntegralSingle
Query ==
  /\ pc = "idle"
  /\ last = "single"
  /\ \E x0 \in 0..(w - 1), y0 \in 0..(h - 1) :
       \E x1 \in x0..(w - 1), y1 \in y0..(h - 1) :
          /\ q' = <<x0, y0, x1, y1>>
          /\ rsum' = rect_sum(integral, w, x0, y0, x1, y1)
          /\ rref' = rect_ref(img, w, x0, x1, y1, y0, x0, Zero64)
  /\ pc' = "queried"
  /\ UNCHANGED <<reused, img, w, h, integral, last, arg, num_threads, rowCum, rowsW, colsW,
                 acc, started>>

\* the pair returned by rect has been compared; the test goes on
QueryReturn ==
  /\ pc = "queried"
  /\ pc' = "idle"
  /\ q' = <<>>
  /\ rsum' = Zero64
  /\ rref' = Zero64
  /\ UNCHANGED <<reused, img, w, h, integral, last, arg, num_threads, rowCum, rowsW, colsW,
                 acc, started>>

Next ==
  \/ NewGrid
  \/ CallSingle
  \/ CallNaive
  \/ CallMulti
  \/ Spawn1
  \/ \E tid \in 0..(MaxThreads - 1) : StepRows(tid)
  \/ Join1
  \/ Spawn2
  \/ \E tid \in 0..(MaxThreads - 1) : StepCols(tid)
  \/ Join2
  \/ Query
  \/ QueryReturn

Spec == Init /\ [][Next]_vars

\* ------------------------------------------------------------ reference values
\* the sum of limb j of the samples of columns 0..x of rows y0..y, as an integer
RECURSIVE LimbSum(_, _, _, _, _, _, _)
LimbSum(im, wd, j, x, y0, y, i) ==
  IF y < y0 THEN 0
  ELSE IF i > x THEN LimbSum(im, wd, j, x, y0, y - 1, 0)
  ELSE im[y * wd + i + 1][j] + LimbSum(im, wd, j, x, y0, y, i + 1)

\* the integer lo + hi * 2^16 as a u64: below 2^47 within the bounds, hence exact
Exact64(lo, hi) ==
  LET m == hi + (lo \div Limb)
  IN  <<lo % Limb, m % Limb, (m \div Limb) % Limb, (m \div Limb) \div Limb>>

\* the exact sum of Grid[j][i] over 0 <= i <= x, y0 <= j <= y
ExactSum(im, wd, x, y0, y) ==
  Exact64(LimbSum(im, wd, 1, x, y0, y, 0), LimbSum(im, wd, 2, x, y0, y, 0))

\* the summed-area table of the grid
ExactTable(im, wd, ht) ==
  [c \in 1..(wd * ht) |-> ExactSum(im, wd, (c - 1) % wd, 0, (c - 1) \div wd)]

\* the table of row prefix sums, which phase 1 leaves in rowCum
ExactRows(im, wd, ht) ==
  [c \in 1..(wd * ht) |-> ExactSum(im, wd, (c - 1) % wd, (c - 1) \div wd, (c - 1) \div wd)]

Ramp(n) == [i \in 1..n |-> <<i, 0>>]

Returned(b) == pc = "idle" /\ last = b

AllDone(ws) == Len(ws) = num_threads /\ \A i \in 1..Len(ws) : ws[i].st = "done"

\* ------------------------------------------------------------ claims
\* C1: on a grid with w >= 1 and h >= 1, whatever the worker count and however
\* the workers interleave, the table computeIntegralMulti returns is the table
\* computeIntegralSingle computes for the same grid: same length, same cells.
C1_ParallelInvariance ==
  (Returned("multi") /\ w >= 1 /\ h >= 1)
    => /\ Len(integral) = w * h
       /\ integral = computeIntegralSingle(img, w, h, <<>>)

\* the 3 x 3 ramp of the tests, two workers: the last cell is 45
C1_Witness ==
  /\ Returned("multi")
  /\ w = 3 /\ h = 3 /\ arg = 2
  /\ img = Ramp(9)
  /\ integral[9] = <<45, 0, 0, 0>>

\* C2: on a grid with w >= 1 and h >= 1 the table of computeIntegralSingle is
\* the table of computeIntegralNaive, and each cell (x, y) is the sum of the
\* samples Grid[j][i] over 0 <= i <= x, 0 <= j <= y.
C2_OracleAgreement ==
  (Returned("single") /\ w >= 1 /\ h >= 1)
    => /\ integral = computeIntegralNaive(img, w, h, <<>>)
       /\ integral = ExactTable(img, w, h)

C2_Witness ==
  /\ Returned("single")
  /\ w = 3 /\ h = 3
  /\ img[5] = Max32 /\ img[1] = One32
  /\ integral[9] = <<7, 0, 1, 0>>

\* C3: on the table of computeIntegralSingle, for every inclusive rectangle
\* inside the grid, A - B - C + D in unsigned 64-bit arithmetic is the
\* brute-force sum of the samples in the rectangle, and the table is still the
\* one computeIntegralSingle built.
C3_RectangleIdentity ==
  pc = "queried"
    => /\ rsum = rref
       /\ rsum = SubU64(ExactSum(img, w, q[3], q[2], q[4]),
                        IF q[1] > 0 THEN ExactSum(img, w, q[1] - 1, q[2], q[4]) ELSE Zero64)
       /\ integral = computeIntegralSingle(img, w, h, <<>>)

\* a rectangle off both axes whose A - B - C wraps below zero before D is added
C3_Witness ==
  /\ pc = "queried"
  /\ q = <<1, 1, 1, 1>>
  /\ img[1] = Max32 /\ img[w + 2] = One32
  /\ rsum = <<1, 0, 0, 0>>
  /\ SubU64(SubU64(integral[w + 2], integral[2]), integral[w + 1])[4] = Limb - 1

\* C4: with w = 0 or h = 0 every builder leaves a table of size 0, and
\* computeIntegralMulti starts no worker: it is never in a phase, and no
\* thread was constructed.
C4_DegenerateSize ==
  (w = 0 \/ h = 0)
    => /\ pc = "idle"
       /\ started = 0
       /\ rowsW = <<>> /\ colsW = <<>>
       /\ last \in {"single", "multi", "naive"} => Len(integral) = 0

\* computeIntegralSingle returned on a 0 x h grid with a buffer that held a table
C4_Witness ==
  /\ Returned("single")
  /\ w = 0 /\ h > 0
  /\ reused
  /\ integral = <<>>

\* C5: with a worker count below 1 computeIntegralMulti runs with
\* num_threads = 1, constructs one thread per phase, and returns the table
\* that one worker per phase computes.
C5_WorkerClamp ==
  (arg < 1 /\ w >= 1 /\ h >= 1)
    => /\ pc \in {"phase1", "phase2"} => num_threads = 1
       /\ Returned("multi")
            => /\ started = 2
               /\ integral = MultiOneWorker(img, w, h)

C5_Witness ==
  /\ Returned("multi")
  /\ arg = -1
  /\ w = 3 /\ h = 3
  /\ started = 2
  /\ integral[9] # Zero64

\* C6: every cell of the table of each builder, and every cell of rowCum when
\* phase 1 has been joined, holds the exact sum of its samples (below 2^64
\* within the bounds), also when that sum is above 2^32 - 1.
C6_Accumulate64 ==
  /\ (pc = "idle" /\ last \in {"single", "multi", "naive"})
       => integral = ExactTable(img, w, h)
  /\ (pc = "phase2" /\ colsW = <<>>) => rowCum = ExactRows(img, w, h)

\* a table of computeIntegralMulti whose last cell is above 2^32 - 1
C6_Witness ==
  /\ Returned("multi")
  /\ w >= 2 /\ h >= 2
  /\ \A i \in 1..(w * h) : img[i] = Max32
  /\ integral[w * h][3] > 0
  /\ integral[w][3] > 0

\* C7: when a builder has returned, the buffer has w * h elements and is the
\* table of the grid of that call alone, whatever the buffer held before;
\* and the grid changes only when the caller prepares another one.
C7_FreshTable ==
  /\ [](pc = "idle" /\ last \in {"single", "multi", "naive"}
          => /\ Len(integral) = w * h
             /\ integral = ExactTable(img, w, h))
  /\ [][(img' # img \/ w' # w \/ h' # h) => (pc = "idle" /\ last' = "none")]_vars

\* a builder returned on a buffer that held a table of another size
C7_Witness ==
  /\ pc = "idle"
  /\ last \in {"single", "naive"}
  /\ reused
  /\ w = 2 /\ h = 1
  /\ Len(integral) = 2

\* C8: a phase-2 worker exists only when all num_threads phase-1 workers have
\* terminated, and the cell of rowCum a running phase-2 worker reads next
\* holds its final value, the prefix sum of its row.
C8_Barrier ==
  Len(colsW) > 0
    => /\ AllDone(rowsW)
       /\ \A i \in 1..Len(colsW) :
            (colsW[i].st = "run" /\ colsW[i].x < col_x1(i - 1, w, num_threads))
              => rowCum[colsW[i].y * w + colsW[i].x + 1]
                   = ExactSum(img, w, colsW[i].x, colsW[i].y, colsW[i].y)

\* two phase-2 workers in the middle of their columns
C8_Witness ==
  /\ pc = "phase2"
  /\ num_threads = 2
  /\ Len(colsW) = 2
  /\ h >= 2 /\ w >= 2
  /\ colsW[1].st = "run" /\ colsW[1].y = 1
  /\ colsW[2].st = "run" /\ colsW[2].y = 1

\* C9: among the workers of one phase, no cell of rowCum or of integral is
\* written by two workers, and none is read by a worker other than the one
\* that writes it.
C9_DisjointWrites ==
  \A b \in {"rowCum", "integral"} : \A c \in 1..Len(acc[b]) :
    /\ Cardinality(acc[b][c].w) <= 1
    /\ acc[b][c].w # {} => acc[b][c].r \subseteq acc[b][c].w

\* three column workers have each written their own column
C9_Witness ==
  /\ pc = "phase2"
  /\ w = 3 /\ num_threads = 3
  /\ AllDone(colsW)
  /\ \A c \in 1..(w * h) :
       /\ acc["integral"][c].w = {<<2, (c - 1) % w>>}
       /\ acc["rowCum"][c].r = {<<2, (c - 1) % w>>}

\* C10: the row blocks of the num_threads workers hold every row of [0, h)
\* once and no row >= h, and the column blocks do the same for [0, w); when
\* the workers of a phase are done, every cell has been written once, by the
\* worker whose block holds it, and a worker whose block starts at or beyond
\* the bound has written nothing.
C10_PartitionCoverage ==
  LET T == 0..(num_threads - 1)
      RowOwners(y) == {t \in T : row_y0(t, h, num_threads) <= y
                                 /\ y < row_y1(t, h, num_threads)}
      ColOwners(x) == {t \in T : col_x0(t, w, num_threads) <= x
                                 /\ x < col_x1(t, w, num_threads)}
  IN  /\ (pc = "phase1" /\ rowsW = <<>>)
           => /\ \A y \in 0..(h - 1) : Cardinality(RowOwners(y)) = 1
              /\ \A x \in 0..(w - 1) : Cardinality(ColOwners(x)) = 1
              /\ \A t \in T : /\ row_y1(t, h, num_threads) <= h
                              /\ col_x1(t, w, num_threads) <= w
      /\ (pc = "phase1" /\ AllDone(rowsW))
           => \A c \in 1..(w * h) :
                /\ acc["rowCum"][c].w = {<<1, t>> : t \in RowOwners((c - 1) \div w)}
                /\ \A a \in acc["rowCum"][c].w : row_y0(a[2], h, num_threads) < h
      /\ (pc = "phase2" /\ AllDone(colsW))
           => \A c \in 1..(w * h) :
                /\ acc["integral"][c].w = {<<2, t>> : t \in ColOwners((c - 1) % w)}
                /\ \A a \in acc["integral"][c].w : col_x0(a[2], w, num_threads) < w

\* three workers on two rows and a truncated column block: the third row
\* worker starts at the bound and ends without a write
C10_Witness ==
  /\ pc = "phase1"
  /\ h = 2 /\ w = 3 /\ num_threads = 3
  /\ AllDone(rowsW)
  /\ row_y0(2, h, num_threads) >= h
  /\ \A c \in 1..(w * h) : acc["rowCum"][c].w = {<<1, (c - 1) \div w>>}

====
